---- MODULE Spec2Model ----
(***************************************************************************)
(* Star Temporal Classification loss (src/criterions/stc.py).              *)
(*                                                                         *)
(* Three specifications share this module:                                 *)
(*   SpecGraph  the label acceptor built by create_stc_graph for one       *)
(*              target, composed frame by frame with a linear emission     *)
(*              lattice and scored (compose + forward_score);              *)
(*   Spec       the STC module object over several calls: STC.forward,     *)
(*              the batch driver STCLossFunction.forward with each         *)
(*              per-example task of parallel_for run as one step, the      *)
(*              batch reduction, and STC.viterbi;                          *)
(*   SpecPool   one loss call with the tasks of parallel_for interleaved   *)
(*              statement by statement, followed by                        *)
(*              STCLossFunction.backward.                                  *)
(*                                                                         *)
(* Numbers.  Log-domain weights are kept in the probability domain, exact: *)
(* an emission value is a pair <<a, e>> standing for the real number       *)
(* a + e*eps, eps the 1e-7 of logsubexp (the common denominator of the     *)
(* probabilities is left out).  The wildcard penalty prob stays symbolic:  *)
(* a forward score is a polynomial in prob and eps with natural            *)
(* coefficients, Z[<<i, j>>] the coefficient of prob^i * eps^j, and the    *)
(* loss of an example is -log Z.                                           *)
(*                                                                         *)
(* A definition written right before X and named X_<Fault> is X with a     *)
(* plausible fault; it only confirms that a property depends on X.         *)
(***************************************************************************)
EXTENDS Integers, Sequences, FiniteSets, TLC

\* ------------------------------------------------------------------ bounds
MaxLen == 2        \* longest target
MaxT == 3          \* most frames of a lattice in SpecGraph
MaxSel == 3        \* most selected channels (blank included) in SpecGraph
MaxB == 2          \* largest batch
MaxFrames == 2     \* most frames of the caller's input
MaxCalls == 2      \* loss calls per behaviour
NumClasses == 6    \* C, the alphabet size including blank

STC_BLANK_IDX == 0

\* ------------------------------------------------------------ gtn.Graph
\* Node ids are 0-based as in gtn; node i is nodes[i + 1].  weight counts the
\* log(prob) factors of an arc (0: weight 0.0, 1: weight math.log(prob)).
\* ok turns FALSE when an arc names a node the graph does not have.
EmptyGraph == [nodes |-> << >>, arcs |-> << >>, ok |-> TRUE]

NumNodes(g) == Len(g.nodes)

AddNode(g, start, accept) ==
    [g EXCEPT !.nodes = Append(@, [start |-> start, accept |-> accept])]

AddArc(g, src, dst, ilabel, olabel, weight) ==
    [g EXCEPT !.arcs = Append(@, [src |-> src, dst |-> dst, ilabel |-> ilabel,
                                  olabel |-> olabel, weight |-> weight]),
              !.ok = @ /\ src \in 0..(NumNodes(g) - 1) /\ dst \in 0..(NumNodes(g) - 1)]

\* ----------------------------------------------------- create_stc_graph
\* Weight of an arc in multiples of log(prob): the wildcard arcs carry
\* math.log(prob), every other arc the default weight 0.0.
ArcWeight(isStar) == IF isStar THEN 1 ELSE 0

\* The conditions of the two loops, one definition each.
ChainAccept_OnlyLast(l, S) == l = S - 1
ChainAccept_Penultimate(l, S) == l = S - 2
ChainAccept(l, S) == l = S - 1 \/ l = S - 2

ChainLabel_EpsilonBlank(target, l) ==
    IF l % 2 = 1 THEN target[((l - 1) \div 2) + 1] ELSE -1
ChainLabel(target, l) ==
    IF l % 2 = 1 THEN target[((l - 1) \div 2) + 1] ELSE STC_BLANK_IDX

HasSelfLoop_Always(label) == TRUE
HasSelfLoop(label) == label = STC_BLANK_IDX

HasSkipArc_Even(l) == l > 1
HasSkipArc_Never(l) == FALSE
HasSkipArc(l) == l % 2 = 1 /\ l > 1

\* One iteration of "for l in range(S)".
ChainStep(g, target, l) ==
    LET S == 2 * Len(target) + 1
        g1 == AddNode(g, l = 0, ChainAccept(l, S))
        label == ChainLabel(target, l)
        g2 == IF HasSelfLoop(label) THEN AddArc(g1, l, l, label, label, ArcWeight(FALSE)) ELSE g1
        g3 == IF l > 0 THEN AddArc(g2, l - 1, l, label, label, ArcWeight(FALSE)) ELSE g2
        g4 == IF HasSkipArc(l) THEN AddArc(g3, l - 2, l, label, label, ArcWeight(FALSE)) ELSE g3
    IN g4

RECURSIVE ChainLoop(_, _, _)
ChainLoop(g, target, l) ==
    IF l >= 2 * Len(target) + 1 THEN g
    ELSE ChainLoop(ChainStep(g, target, l), target, l + 1)

StarAccept_All(l, L) == TRUE
StarAccept(l, L) == l = L

StarLabel_Plain(target, star_idx, l) == star_idx
StarLabel(target, star_idx, l) ==
    IF l = Len(target) THEN star_idx ELSE star_idx + target[l + 1]

HasTokenExit(l, L) == l < L

\* One iteration of "for l in range(L + 1)".
StarStep(g, target, star_idx, l) ==
    LET L == Len(target)
        p1 == 2 * l - 1
        p2 == 2 * l
        c1 == NumNodes(g)
        g1 == AddNode(g, FALSE, StarAccept(l, L))
        idx == StarLabel(target, star_idx, l)
        g2 == IF p1 >= 0 THEN AddArc(g1, p1, c1, idx, idx, ArcWeight(TRUE)) ELSE g1
        g3 == AddArc(g2, p2, c1, idx, idx, ArcWeight(TRUE))
        g4 == AddArc(g3, c1, c1, idx, idx, ArcWeight(TRUE))
        g5 == IF HasTokenExit(l, L)
              THEN AddArc(g4, c1, 2 * l + 1, target[l + 1], target[l + 1], ArcWeight(FALSE))
              ELSE g4
        g6 == AddArc(g5, c1, p2, STC_BLANK_IDX, STC_BLANK_IDX, ArcWeight(FALSE))
    IN g6

RECURSIVE StarLoop(_, _, _, _)
StarLoop(g, target, star_idx, l) ==
    IF l >= Len(target) + 1 THEN g
    ELSE StarLoop(StarStep(g, target, star_idx, l), target, star_idx, l + 1)

create_stc_graph(target, star_idx) ==
    StarLoop(ChainLoop(EmptyGraph, target, 0), target, star_idx, 0)

\* ------------------------------------------------- polynomials in prob, eps
\* A score over D frames: [<<i, j>> \in (0..D) \X (0..D) |-> coefficient].
PolyZero(D) == [m \in (0..D) \X (0..D) |-> 0]
PolyOne(D) == [m \in (0..D) \X (0..D) |-> IF m = <<0, 0>> THEN 1 ELSE 0]
PolyAdd(p, q) == [m \in DOMAIN p |-> p[m] + q[m]]
IsZeroPoly(p) == \A m \in DOMAIN p : p[m] = 0
\* p * (val[1] + val[2]*eps) * prob^w
PolyMulArc(p, val, w) ==
    [m \in DOMAIN p |->
        IF m[1] - w < 0 THEN 0
        ELSE val[1] * p[<<m[1] - w, m[2]>>]
             + (IF m[2] > 0 THEN val[2] * p[<<m[1] - w, m[2] - 1>>] ELSE 0)]

\* --------------------------------------------------------- emission lattice
\* gtn.linear_graph(T, Cstar) with set_weights: T + 1 nodes (0 start, T
\* accept) and, from node t to node t + 1, one arc per class c < Cstar,
\* labelled c, of weight w[<<t, c>>].
linear_graph(T, Cstar, w) ==
    [T |-> T, N |-> Cstar, nnodes |-> T + 1, w |-> w]

\* ------------------------------------------- compose and forward_score
\* An acceptor arc matches the lattice arc of its label at the current
\* frame when the lattice has that label.
Matches(a, em) == a.olabel \in 0..(em.N - 1)

\* gtn.epsilon: compose follows an acceptor arc of this label without taking
\* a lattice arc.
IsEpsilon(label) == label = -1

\* The lattice arcs a composed arc takes along acceptor arc a.
Consumes(a) == IF IsEpsilon(a.olabel) THEN 0 ELSE 1

RECURSIVE AccumArcs(_, _, _, _, _, _)
AccumArcs(g, em, t, k, prev, acc) ==
    IF k > Len(g.arcs) THEN acc
    ELSE LET a == g.arcs[k]
             acc2 == IF Matches(a, em)
                     THEN [acc EXCEPT ![a.dst] =
                              PolyAdd(@, PolyMulArc(prev[a.src], em.w[<<t, a.olabel>>],
                                                    a.weight))]
                     ELSE acc
         IN AccumArcs(g, em, t, k + 1, prev, acc2)

\* alpha after t frames: node id |-> total weight of the paths from a start
\* node that consume frames 0..t-1 and end in the node.
RECURSIVE Alpha(_, _, _)
Alpha(g, em, t) ==
    IF t = 0
    THEN [v \in 0..(NumNodes(g) - 1) |->
             IF g.nodes[v + 1].start THEN PolyOne(em.T) ELSE PolyZero(em.T)]
    ELSE LET prev == Alpha(g, em, t - 1)
         IN AccumArcs(g, em, t - 1, 1, prev,
                      [v \in 0..(NumNodes(g) - 1) |-> PolyZero(em.T)])

RECURSIVE SumAccept(_, _, _, _)
SumAccept(g, alpha, v, D) ==
    IF v >= NumNodes(g) THEN PolyZero(D)
    ELSE PolyAdd(IF g.nodes[v + 1].accept THEN alpha[v] ELSE PolyZero(D),
                 SumAccept(g, alpha, v + 1, D))

\* exp(forward_score(compose(g_criterion, g_emissions))): the total weight of
\* the accepting paths; the zero polynomial is the score -inf.
forward_score(g, em) == SumAccept(g, Alpha(g, em, em.T), 0, em.T)

\* Acceptor nodes paired with lattice node t in the composition.
RECURSIVE Reach(_, _, _)
Reach(g, em, t) ==
    IF t = 0 THEN {v \in 0..(NumNodes(g) - 1) : g.nodes[v + 1].start}
    ELSE LET prev == Reach(g, em, t - 1)
         IN {g.arcs[k].dst : k \in {i \in 1..Len(g.arcs) :
                                       g.arcs[i].src \in prev /\ Matches(g.arcs[i], em)}}

HasAcceptingPath(g, em) == \E v \in Reach(g, em, em.T) : g.nodes[v + 1].accept



RECURSIVE SeqsOfLen(_, _)
SeqsOfLen(S, n) ==
    IF n = 0 THEN {<< >>}
    ELSE {Append(s, x) : s \in SeqsOfLen(S, n - 1), x \in S}

SeqsUpTo(S, n) == UNION {SeqsOfLen(S, k) : k \in 0..n}

\* Lattice weights: "blank" puts all probability mass on blank at every
\* frame, "flat" gives every channel the same non-zero mass.
LatticeWeights(prof, T, Cstar) ==
    [tc \in (0..(T - 1)) \X (0..(Cstar - 1)) |->
        IF prof = "blank"
        THEN (IF tc[2] = STC_BLANK_IDX THEN <<1, 0>> ELSE <<0, 0>>)
        ELSE <<1, 0>>]

\* ------------------------------------------------------------ tensors
\* Tensors are records [shape |-> <<d0, d1, d2>>, data |-> [index triple |->
\* value]], indices 0-based.  The caller's log-probabilities are probability
\* numerators (all positive: finite log-probabilities); the reduced tensor
\* holds pairs <<a, e>>.
None == << >>
Some(v) == <<v>>

Idx3(shape) == (0..(shape[1] - 1)) \X (0..(shape[2] - 1)) \X (0..(shape[3] - 1))

RECURSIVE SumOver(_, _, _)
SumOver(f, lo, hi) == IF lo > hi THEN 0 ELSE f[lo] + SumOver(f, lo + 1, hi)

\* x.permute(1, 0, 2)
permute(x) ==
    LET shape == <<x.shape[2], x.shape[1], x.shape[3]>>
    IN [shape |-> shape,
        data |-> [i \in Idx3(shape) |-> x.data[<<i[2], i[1], i[3]>>]]]

\* x[:, :, 1:]
tail_classes(x) ==
    LET shape == <<x.shape[1], x.shape[2], IF x.shape[3] > 0 THEN x.shape[3] - 1 ELSE 0>>
    IN [shape |-> shape,
        data |-> [i \in Idx3(shape) |-> x.data[<<i[1], i[2], i[3] + 1>>]]]

\* torch.logsumexp(x, 2, keepdim=True): the probabilities of the classes add.
logsumexp(x) ==
    LET shape == <<x.shape[1], x.shape[2], 1>>
    IN [shape |-> shape,
        data |-> [i \in Idx3(shape) |->
                    SumOver([c \in 0..(x.shape[3] - 1) |-> x.data[<<i[1], i[2], c>>]],
                            0, x.shape[3] - 1)]]

\* x.index_select(2, select_idx)
index_select(x, select_idx) ==
    LET shape == <<x.shape[1], x.shape[2], Len(select_idx)>>
    IN [shape |-> shape,
        data |-> [i \in Idx3(shape) |-> x.data[<<i[1], i[2], select_idx[i[3] + 1]>>]]]

\* STC.logsubexp(a, b) = a + log1p(1e-7 - exp(b - a)), a tiled over the classes
\* of b: in the probability domain a + eps*a - b, the pair <<a - b, a>>.
logsubexp(a, b) ==
    [shape |-> b.shape,
     data |-> [i \in Idx3(b.shape) |->
                 <<a.data[<<i[1], i[2], 0>>] - b.data[i], a.data[<<i[1], i[2], 0>>]>>]]

\* A tensor of plain numbers as a tensor of pairs.
exact(x) == [shape |-> x.shape, data |-> [i \in Idx3(x.shape) |-> <<x.data[i], 0>>]]

\* torch.cat([x, y, z], dim=2)
cat(x, y, z) ==
    LET shape == <<x.shape[1], x.shape[2], x.shape[3] + y.shape[3] + z.shape[3]>>
    IN [shape |-> shape,
        data |-> [i \in Idx3(shape) |->
                    IF i[3] < x.shape[3] THEN x.data[i]
                    ELSE IF i[3] < x.shape[3] + y.shape[3]
                         THEN y.data[<<i[1], i[2], i[3] - x.shape[3]>>]
                         ELSE z.data[<<i[1], i[2], i[3] - x.shape[3] - y.shape[3]>>]]]

\* list(set(...)) of small ints: ascending.
RECURSIVE SortedSeq(_)
SortedSeq(S) ==
    IF S = {} THEN << >>
    ELSE LET m == CHOOSE x \in S : \A y \in S : x <= y
         IN <<m>> \o SortedSeq(S \ {m})

\* set([t.item() for target in targets for t in target])
Tokens(tgts) == UNION {{tgts[b][i] : i \in 1..Len(tgts[b])} : b \in 1..Len(tgts)}

\* select_idx = [STC_BLANK_IDX] + list(set(...))
select_idx(tgts) == <<STC_BLANK_IDX>> \o SortedSeq(Tokens(tgts))

\* target_map[t] = i for i, t in enumerate(select_idx): the last i wins.
target_map_Identity(sel, t) == t
target_map(sel, t) ==
    CHOOSE i \in 0..(Len(sel) - 1) :
        /\ sel[i + 1] = t
        /\ \A j \in 0..(Len(sel) - 1) : sel[j + 1] = t => j <= i

remap(tgts, sel) ==
    [b \in 1..Len(tgts) |-> [i \in 1..Len(tgts[b]) |-> target_map(sel, tgts[b][i])]]

\* The layout in which STC.forward hands the reduced tensor to STCLoss:
\* the tensor is (B, T, Cstar) after torch.cat and is permuted once more.
FinalLayout(x) == permute(x)

\* neglse = STC.logsubexp(lse, log_probs[:, :, 1:])
NotThisToken_All(lse, selected) == logsubexp(lse, selected)
NotThisToken(lse, selected) == logsubexp(lse, tail_classes(selected))

\* STC.forward, the tensor it passes to STCLoss.
ReducedLogProbs(x, tgts) ==
    LET log_probs == permute(x)
        lse == logsumexp(tail_classes(log_probs))
        sel == select_idx(tgts)
        selected == index_select(log_probs, sel)
        neglse == NotThisToken(lse, selected)
    IN FinalLayout(cat(exact(selected), exact(lse), neglse))

Gcd(a, b) == CHOOSE d \in 1..(IF a > b THEN a ELSE b) :
                /\ a % d = 0 /\ b % d = 0
                /\ \A e \in 1..(IF a > b THEN a ELSE b) : a % e = 0 /\ b % e = 0 => e <= d

\* prob = plast + (p0 - plast) * exp(-nstep * log(2) / thalf), kept symbolic as
\* base + diff * 2^(-num/den) with num/den in lowest terms; with p0 = plast or
\* nstep = 0 it is the constant p0.
Penalty(p0_, plast_, nstep_, thalf_) ==
    IF p0_ = plast_ \/ nstep_ = 0
    THEN [base |-> p0_, diff |-> 0, num |-> 0, den |-> 1]
    ELSE [base |-> plast_, diff |-> p0_ - plast_,
          num |-> nstep_ \div Gcd(nstep_, thalf_), den |-> thalf_ \div Gcd(nstep_, thalf_)]

\* if self.training: self.nstep += 1
NextStep_Always(training_, nstep_) == nstep_ + 1
NextStep(training_, nstep_) == IF training_ THEN nstep_ + 1 ELSE nstep_

NoPenalty == [base |-> 0, diff |-> 0, num |-> 0, den |-> 1]

\* B, T, Cstar = inputs.shape; C = Cstar // 2
DriverShape(x) ==
    [B |-> x.shape[1], T |-> x.shape[2], Cstar |-> x.shape[3], C |-> x.shape[3] \div 2]

\* inputs[b] as the weights of the lattice of example b.
ExampleWeights(x, b, T, Cstar) ==
    [tc \in (0..(T - 1)) \X (0..(Cstar - 1)) |-> x.data[<<b, tc[1], tc[2]>>]]

ValidReduction(r) == r \in {"none", "mean"}

\* scale, as the number the loss is divided by.
ScaleDen(r, T) == IF r = "mean" THEN (IF T > 0 THEN T ELSE 1) ELSE 1

HasStarMass(Z) == \E m \in DOMAIN Z : m[1] > 0 /\ Z[m] > 0

\* torch.mean(torch.tensor([losses[b].item() * scales[b] for b in range(B)])).
\* The mean of no numbers is NaN; one example of score -inf makes it +inf;
\* otherwise it is the mean of the -log(Z_b) / scale_b, which for given Z_b
\* depends on prob exactly when some Z_b has a term in prob (every Z_b is
\* non-decreasing in prob).
BatchLoss(B, ls, sc, prob) ==
    IF B = 0 THEN [kind |-> "nan", terms |-> << >>, prob |-> NoPenalty]
    ELSE IF \E b \in 0..(B - 1) : IsZeroPoly(ls[b][1])
    THEN [kind |-> "inf", terms |-> << >>, prob |-> NoPenalty]
    ELSE [kind |-> "finite",
          terms |-> [b \in 1..B |-> [Z |-> ls[b - 1][1], scale |-> sc[b - 1][1]]],
          prob |-> IF \E b \in 0..(B - 1) : HasStarMass(ls[b][1]) THEN prob ELSE NoPenalty]

\* The caller's log-probabilities: every class has mass 1, the peak class of
\* the frame mass 2 (in units of 1/(NumClasses + 1)).
PeakClasses == <<0, 3, 5>>
InputTensor(T, B) ==
    [shape |-> <<T, B, NumClasses>>,
     data |-> [i \in Idx3(<<T, B, NumClasses>>) |->
                 IF i[3] = PeakClasses[((i[1] + 2 * i[2]) % 3) + 1] THEN 2 ELSE 1]]

\* The caller's batches: B consecutive entries of a cycle of targets.
TargetCycle == << << >>, <<3>>, <<3, 5>>, <<5, 5>> >>
Batch(k, B) == [b \in 1..B |-> TargetCycle[((k + b - 1) % Len(TargetCycle)) + 1]]

Schedules == {[p0 |-> 2, plast |-> 2, thalf |-> 1],
              [p0 |-> 2, plast |-> 1, thalf |-> 1],
              [p0 |-> 2, plast |-> 1, thalf |-> 2]}

\* The nstep the penalty of a call is computed from: the counter is advanced
\* (line 193) before prob is evaluated (line 195).
PenaltyStep_Before(before, after) == before
PenaltyStep(before, after) == after

\* The locals of process(b) when it reaches line 96, or the error it raises
\* on the way: targets[b] (line 81) before the reduction check (line 93).
TaskBody(c, b) ==
    IF b >= Len(c.targets)
    THEN [error |-> "IndexError", g_loss |-> None, scale |-> None, g_emissions |-> None]
    ELSE IF ~ValidReduction(c.reduction)
    THEN [error |-> "ValueError", g_loss |-> None, scale |-> None, g_emissions |-> None]
    ELSE LET g_em == linear_graph(c.T, c.Cstar, ExampleWeights(c.inputs, b, c.T, c.Cstar))
             g_cr == create_stc_graph(c.targets[b + 1], c.C)
         IN [error |-> "", g_loss |-> forward_score(g_cr, g_em),
             scale |-> ScaleDen(c.reduction, c.T), g_emissions |-> g_em]

\* The slot of the result arrays task b writes.
Slot_Shared(b) == 0
Slot(b) == b

\* A task is between its first and its last statement.
Running(st) == st \in {"pending", "at_scales", "at_graphs"}

\* gtn.parallel_for returns when every task has ended.
Barrier(st) == \A b \in DOMAIN st : ~Running(st[b])

\* ------------------------------------------------------------- backward
\* The lattice with frame t restricted to class c.
OnlyClass(em, t, c) ==
    [em EXCEPT !.w = [tc \in DOMAIN em.w |->
                         IF tc[1] = t /\ tc[2] # c THEN <<0, 0>> ELSE em.w[tc]]]

\* gtn.backward(losses[b]) and emissions.grad(): the derivative of -log Z by
\* the log-weight of lattice arc (t, c) is -num/den, den = Z and num the total
\* weight of the accepting paths through that arc.
RawGrad(g_cr, g_em, Z) ==
    [tc \in DOMAIN g_em.w |->
        [num |-> forward_score(g_cr, OnlyClass(g_em, tc[1], tc[2])), den |-> Z]]

\* scales[b] as backward reads it (line 116).
BackwardScale_One(scales_, b) == 1
BackwardScale(scales_, b) == scales_[b][1]

\* The raw gradients of the B examples (lines 113-115); losses[b] keeps the
\* composition it was computed from, acceptor included.
RawGrads(a, tgts, C) ==
    [b \in 0..(a.in_shape[1] - 1) |->
        RawGrad(create_stc_graph(tgts[b + 1], C), a.emissions_graphs[b][1], a.losses[b][1])]

\* backward: input_grad[b] = grad * scales[b], then input_grad *= grad_output / B.
\* Entry b is -raw * grad_output / (scale * B), scale the number the loss of
\* example b was divided by.
backward(a, raw, grad_output) ==
    [b \in 0..(a.in_shape[1] - 1) |->
        [raw |-> raw[b],
         scale |-> BackwardScale(a.scales, b),
         grad_output |-> grad_output,
         B |-> a.in_shape[1]]]

\* grad_output, the gradient of the caller's objective by the returned loss.
GradOutputs == {1, 3}

\* -------------------------------------------------------------- viterbi
\* torch.argmax(v[:n]): the index of the first maximal value.
ArgMax(v, n) ==
    CHOOSE i \in 0..(n - 1) :
        /\ \A j \in 0..(n - 1) : v[j] <= v[i]
        /\ \A j \in 0..(i - 1) : v[j] < v[i]

\* original_vocab_size (lines 253-258)
VocabSize(vocab_, C) ==
    IF vocab_ # None THEN vocab_[1]
    ELSE IF C \div 2 < 100 THEN C \div 2 ELSE 100

\* The loop over t (lines 263-275); prev is -1 for None.
RECURSIVE DecodeFrames(_, _, _, _, _, _)
DecodeFrames(lp, b, t, n, prev, sequence) ==
    IF t >= lp.shape[2] THEN sequence
    ELSE LET token == ArgMax([c \in 0..(n - 1) |-> lp.data[<<b, t, c>>]], n)
         IN DecodeFrames(lp, b, t + 1, n, token,
                         IF token # prev /\ token # STC_BLANK_IDX
                         THEN Append(sequence, token) ELSE sequence)

\* STC.viterbi: one decoded sequence per batch element; argmax of an empty
\* slice raises.
viterbi(x, vocab_) ==
    LET lp == permute(x)
        n == VocabSize(vocab_, lp.shape[3])
    IN IF n = 0 /\ lp.shape[1] > 0 /\ lp.shape[2] > 0
       THEN [kind |-> "error", seqs |-> << >>]
       ELSE [kind |-> "ok",
             seqs |-> [b \in 1..lp.shape[1] |-> DecodeFrames(lp, b - 1, 0, n, -1, << >>)]]

\* ============================================================== state
\* SpecGraph: one acceptor, one lattice, and a walk along the arcs of their
\* composition.
VARIABLES
    gpc,        \* "start": inputs chosen; "composed": graphs built and scored
    target,     \* the target of the acceptor (tokens of the reduced alphabet)
    star_idx,   \* index of the wildcard channel, Cstar // 2
    frames,     \* T, the number of frames of the lattice
    profile,    \* which weights the lattice carries
    g_criterion,    \* the label acceptor
    g_emissions,    \* the emission lattice
    score,      \* exp(forward_score) of the composition
    path,       \* walk: the acceptor nodes visited, the current one last
    time,       \* walk: lattice node of the current composed node
    labels,     \* walk: the labels consumed so far
    stars       \* walk: the number of log(prob)-weighted arcs taken so far

graphVars == <<gpc, target, star_idx, frames, profile, g_criterion, g_emissions,
               score, path, time, labels, stars>>

\* Spec: the STC module object and one loss call at a time.
VARIABLES
    p0, plast, thalf,   \* penalty schedule, penalties in halves (2 is 1.0)
    nstep,              \* training-mode calls so far
    reduction,          \* "none", "mean", or anything else
    training,           \* torch.nn.Module.training
    vocab,              \* _last_original_vocab_size: << >> unset, <<n>> set
    inputs,             \* the caller's (T, B, C) log-probabilities
    targets,            \* the caller's B target sequences
    pc,                 \* "idle" or "parallel_for"
    ctx,                \* locals of STCLossFunction.forward
    losses, scales, emissions_graphs,   \* the preallocated result arrays
    status,             \* per task: "pending", the statement it stands before
                        \* ("at_scales", "at_graphs"), "done", or the error raised
    local,              \* per task: the locals g_loss, scale, g_emissions of process(b)
    results,            \* outcome of every finished call, oldest first
    aux,                \* ctx.auxiliary_data of the latest loss call
    input_grad,         \* what backward returned for the latest loss call
    decoded             \* what the latest viterbi call returned

\* Set by STC.__init__ or held by the caller, never assigned afterwards.
configVars == <<p0, plast, thalf, reduction, inputs, targets>>
\* The preallocated result arrays and the tasks' own state.
taskVars == <<losses, scales, emissions_graphs, status, local>>

lossVars == <<configVars, nstep, training, vocab, pc, ctx, taskVars, results,
              aux, input_grad, decoded>>

vars == <<graphVars, lossVars>>

IdleGraph ==
    /\ gpc = "start" /\ target = << >> /\ star_idx = 1 /\ frames = 0
    /\ profile = "blank" /\ g_criterion = EmptyGraph
    /\ g_emissions = linear_graph(0, 0, << >>) /\ score = PolyZero(0)
    /\ path = << >> /\ time = 0 /\ labels = << >> /\ stars = 0

IdleLoss ==
    /\ p0 = 2 /\ plast = 2 /\ thalf = 1 /\ nstep = 0 /\ reduction = "none"
    /\ training = TRUE /\ vocab = None
    /\ inputs = InputTensor(0, 0) /\ targets = << >>
    /\ pc = "idle" /\ ctx = << >>
    /\ losses = << >> /\ scales = << >> /\ emissions_graphs = << >>
    /\ status = << >> /\ local = << >> /\ results = << >>
    /\ aux = None /\ input_grad = None /\ decoded = None

\* =========================================================== SpecGraph
InitGraph ==
    /\ IdleLoss
    /\ gpc = "start"
    /\ \E n \in 1..MaxSel :
          /\ star_idx = (2 * n) \div 2
          /\ target \in SeqsUpTo(1..(n - 1), MaxLen)
    /\ frames \in 0..MaxT
    /\ profile \in {"blank", "flat"}
    /\ g_criterion = EmptyGraph
    /\ g_emissions = linear_graph(0, 0, << >>)
    /\ score = PolyZero(0)
    /\ path = << >>
    /\ time = 0
    /\ labels = << >>
    /\ stars = 0

\* The body of process(b) up to the forward score, for one example.
Compose ==
    /\ gpc = "start"
    /\ gpc' = "composed"
    /\ g_emissions' = linear_graph(frames, 2 * star_idx,
                                   LatticeWeights(profile, frames, 2 * star_idx))
    /\ g_criterion' = create_stc_graph(target, star_idx)
    /\ score' = forward_score(g_criterion', g_emissions')
    /\ \E v \in 0..(NumNodes(g_criterion') - 1) :
          /\ g_criterion'.nodes[v + 1].start
          /\ path' = <<v>>
    /\ UNCHANGED <<target, star_idx, frames, profile, time, labels, stars>>
    /\ UNCHANGED lossVars

\* One arc of the composition: acceptor arc k out of the current node,
\* paired with the lattice arc of the same label out of lattice node time
\* (with no lattice arc when the label is epsilon).
ComposedArc(k) ==
    /\ gpc = "composed"
    /\ g_criterion.arcs[k].src = path[Len(path)]
    /\ \/ IsEpsilon(g_criterion.arcs[k].olabel)
       \/ time < g_emissions.T /\ Matches(g_criterion.arcs[k], g_emissions)
    /\ path' = Append(path, g_criterion.arcs[k].dst)
    /\ time' = time + Consumes(g_criterion.arcs[k])
    /\ labels' = IF IsEpsilon(g_criterion.arcs[k].olabel) THEN labels
                 ELSE Append(labels, g_criterion.arcs[k].olabel)
    /\ stars' = stars + g_criterion.arcs[k].weight
    /\ UNCHANGED <<gpc, target, star_idx, frames, profile, g_criterion, g_emissions, score>>
    /\ UNCHANGED lossVars

NextGraph ==
    \/ Compose
    \/ \E k \in 1..Len(g_criterion.arcs) : ComposedArc(k)

SpecGraph == InitGraph /\ [][NextGraph]_vars

\* The walk stands on an accept node of the composition.
Accepted ==
    /\ gpc = "composed"
    /\ time = g_emissions.T
    /\ g_criterion.nodes[path[Len(path)] + 1].accept

\* ================================================================ Spec
\* STC.__init__ and the batch the caller passes to every call.
Init ==
    /\ IdleGraph
    /\ \E sch \in Schedules : p0 = sch.p0 /\ plast = sch.plast /\ thalf = sch.thalf
    /\ nstep = 0
    /\ reduction \in {"none", "mean", "sum"}
    /\ training = TRUE
    /\ vocab = None
    /\ \E T \in 0..MaxFrames, B \in 0..MaxB :
          /\ inputs = InputTensor(T, B)
          /\ \E k \in 0..(Len(TargetCycle) - 1) : targets = Batch(k, B)
    /\ pc = "idle"
    /\ ctx = << >>
    /\ losses = << >> /\ scales = << >> /\ emissions_graphs = << >>
    /\ status = << >> /\ local = << >>
    /\ results = << >>
    /\ aux = None /\ input_grad = None /\ decoded = None

\* torch.nn.Module.train() / eval()
SetMode(mode) ==
    /\ pc = "idle"
    /\ training # mode
    /\ training' = mode
    /\ UNCHANGED <<configVars, nstep, vocab, pc, ctx, taskVars, results,
                   aux, input_grad, decoded>>
    /\ UNCHANGED graphVars

\* STC.forward up to and including the set-up of STCLossFunction.forward
\* (lines 192-231 and 68-70): the tasks are dispatched next.  The values the
\* caller got from earlier calls on the object are dropped.
Forward ==
    /\ pc = "idle"
    /\ Len(results) < MaxCalls
    /\ nstep' = NextStep(training, nstep)
    /\ vocab' = Some(Len(select_idx(targets)))
    /\ LET x == ReducedLogProbs(inputs, targets)
           d == DriverShape(x)
       IN /\ ctx' = [B |-> d.B, T |-> d.T, Cstar |-> d.Cstar, C |-> d.C,
                     inputs |-> x,
                     targets |-> remap(targets, select_idx(targets)),
                     prob |-> Penalty(p0, plast, PenaltyStep(nstep, nstep'), thalf),
                     reduction |-> reduction,
                     training |-> training]
          /\ losses' = [b \in 0..(d.B - 1) |-> None]
          /\ scales' = [b \in 0..(d.B - 1) |-> None]
          /\ emissions_graphs' = [b \in 0..(d.B - 1) |-> None]
          /\ status' = [b \in 0..(d.B - 1) |-> "pending"]
          /\ local' = [b \in 0..(d.B - 1) |-> None]
    /\ pc' = "parallel_for"
    /\ aux' = None /\ input_grad' = None /\ decoded' = None
    /\ UNCHANGED <<configVars, training, results>>
    /\ UNCHANGED graphVars

\* process(b), one task of gtn.parallel_for, run from its first statement to
\* its last (lines 73-98).
Process(b) ==
    /\ pc = "parallel_for"
    /\ status[b] = "pending"
    /\ \E r \in {TaskBody(ctx, b)} :
          IF r.error # ""
          THEN /\ status' = [status EXCEPT ![b] = r.error]
               /\ UNCHANGED <<losses, scales, emissions_graphs, local>>
          ELSE /\ local' = [local EXCEPT ![b] = Some(r)]
               /\ losses' = [losses EXCEPT ![Slot(b)] = Some(r.g_loss)]
               /\ scales' = [scales EXCEPT ![Slot(b)] = Some(r.scale)]
               /\ emissions_graphs' = [emissions_graphs EXCEPT ![Slot(b)] = Some(r.g_emissions)]
               /\ status' = [status EXCEPT ![b] = "done"]
    /\ UNCHANGED <<configVars, nstep, training, vocab, pc, ctx, results,
                   aux, input_grad, decoded>>
    /\ UNCHANGED graphVars

\* The same task statement by statement, as the worker threads interleave
\* it.  Lines 73-96: everything up to the scale is local to the task; the
\* first statement that touches shared state is losses[b] = g_loss.
ProcessStart(b) ==
    /\ pc = "parallel_for"
    /\ status[b] = "pending"
    /\ \E r \in {TaskBody(ctx, b)} :
          IF r.error # ""
          THEN /\ status' = [status EXCEPT ![b] = r.error]
               /\ UNCHANGED <<losses, local>>
          ELSE /\ local' = [local EXCEPT ![b] = Some(r)]
               /\ losses' = [losses EXCEPT ![Slot(b)] = Some(r.g_loss)]
               /\ status' = [status EXCEPT ![b] = "at_scales"]
    /\ UNCHANGED <<scales, emissions_graphs>>
    /\ UNCHANGED <<configVars, nstep, training, vocab, pc, ctx, results,
                   aux, input_grad, decoded>>
    /\ UNCHANGED graphVars

\* Line 97: scales[b] = scale
WriteScale(b) ==
    /\ pc = "parallel_for"
    /\ status[b] = "at_scales"
    /\ scales' = [scales EXCEPT ![Slot(b)] = Some(local[b][1].scale)]
    /\ status' = [status EXCEPT ![b] = "at_graphs"]
    /\ UNCHANGED <<losses, emissions_graphs, local>>
    /\ UNCHANGED <<configVars, nstep, training, vocab, pc, ctx, results,
                   aux, input_grad, decoded>>
    /\ UNCHANGED graphVars

\* Line 98: emissions_graphs[b] = g_emissions; the task ends.
WriteGraph(b) ==
    /\ pc = "parallel_for"
    /\ status[b] = "at_graphs"
    /\ emissions_graphs' = [emissions_graphs EXCEPT ![Slot(b)] = Some(local[b][1].g_emissions)]
    /\ status' = [status EXCEPT ![b] = "done"]
    /\ UNCHANGED <<losses, scales, local>>
    /\ UNCHANGED <<configVars, nstep, training, vocab, pc, ctx, results,
                   aux, input_grad, decoded>>
    /\ UNCHANGED graphVars

\* The end of gtn.parallel_for and the batch reduction (lines 100-104): the
\* error of the first failed task is raised, else the arrays are saved for
\* backward and the mean loss is returned.
Join ==
    /\ pc = "parallel_for"
    /\ Barrier(status)
    /\ LET failed == {b \in DOMAIN status : status[b] # "done"}
           first == CHOOSE b \in failed : \A c \in failed : b <= c
           outcome == IF failed # {}
                      THEN [kind |-> "error", error |-> status[first], value |-> None]
                      ELSE [kind |-> "loss", error |-> "",
                            value |-> Some(BatchLoss(ctx.B, losses, scales, ctx.prob))]
       IN /\ results' = Append(results, [training |-> ctx.training, nstep |-> nstep,
                                         outcome |-> outcome])
          /\ aux' = IF failed # {} THEN None
                    ELSE Some([losses |-> losses, scales |-> scales,
                               emissions_graphs |-> emissions_graphs,
                               in_shape |-> ctx.inputs.shape])
    /\ pc' = "idle"
    /\ UNCHANGED <<configVars, nstep, training, vocab, ctx, taskVars, input_grad, decoded>>
    /\ UNCHANGED graphVars

\* STCLossFunction.backward on the ctx of the latest loss call (lines 107-131).
Backward ==
    /\ pc = "idle"
    /\ aux # None
    /\ input_grad = None
    /\ \E raw \in {RawGrads(aux[1], ctx.targets, ctx.C)}, grad_output \in GradOutputs :
          input_grad' = Some(backward(aux[1], raw, grad_output))
    /\ UNCHANGED <<configVars, nstep, training, vocab, pc, ctx, taskVars, results,
                   aux, decoded>>
    /\ UNCHANGED graphVars

\* STC.viterbi on the caller's input (lines 233-278).
Viterbi ==
    /\ pc = "idle"
    /\ decoded = None
    /\ decoded' = Some(viterbi(inputs, vocab))
    /\ UNCHANGED <<configVars, nstep, training, vocab, pc, ctx, taskVars, results,
                   aux, input_grad>>
    /\ UNCHANGED graphVars

Next ==
    \/ \E mode \in BOOLEAN : SetMode(mode)
    \/ Forward
    \/ \E b \in DOMAIN status : Process(b)
    \/ Join
    \/ Viterbi

Spec == Init /\ [][Next]_vars

\* ============================================================ SpecPool
\* One loss call with its tasks interleaved statement by statement under the
\* worker pool, and the gradient call that follows it.
FirstCall == results = << >>

NextPool ==
    \/ FirstCall /\ Forward
    \/ \E b \in DOMAIN status : ProcessStart(b)
    \/ \E b \in DOMAIN status : WriteScale(b)
    \/ \E b \in DOMAIN status : WriteGraph(b)
    \/ Join
    \/ Backward

SpecPool == Init /\ [][NextPool]_vars

\* ------------------------------------------------ claims about the acceptor
Arcs(g) == {g.arcs[k] : k \in 1..Len(g.arcs)}
Arc(src, dst, label, weight) ==
    [src |-> src, dst |-> dst, ilabel |-> label, olabel |-> label, weight |-> weight]
Starts(g) == {v \in 0..(NumNodes(g) - 1) : g.nodes[v + 1].start}
Accepts(g) == {v \in 0..(NumNodes(g) - 1) : g.nodes[v + 1].accept}
Built == gpc = "composed"
L_ == Len(target)
S_ == 2 * Len(target) + 1

RECURSIVE RemoveBlanks(_)
RemoveBlanks(s) ==
    IF s = << >> THEN << >>
    ELSE IF Head(s) = STC_BLANK_IDX THEN RemoveBlanks(Tail(s))
    ELSE <<Head(s)>> \o RemoveBlanks(Tail(s))

\* Classic CTC collapse: merge runs of equal labels, then drop the blanks.
RECURSIVE MergeRuns(_)
MergeRuns(s) ==
    IF Len(s) <= 1 THEN s
    ELSE IF s[1] = s[2] THEN MergeRuns(Tail(s))
    ELSE <<s[1]>> \o MergeRuns(Tail(s))
CtcCollapse(s) == RemoveBlanks(MergeRuns(s))

\* The nodes the acceptor can be in after reading s along arcs that carry no
\* wildcard label (labels below star_idx).
RECURSIVE NodesAfter(_, _, _)
NodesAfter(g, sidx, s) ==
    IF s = << >> THEN Starts(g)
    ELSE LET prev == NodesAfter(g, sidx, SubSeq(s, 1, Len(s) - 1))
         IN {a.dst : a \in {x \in Arcs(g) : /\ x.src \in prev
                                              /\ x.olabel = s[Len(s)]
                                              /\ x.olabel < sidx}}
AcceptsNoStar(g, sidx, s) == NodesAfter(g, sidx, s) \cap Accepts(g) # {}
NoStarLanguage == {s \in SeqsOfLen(0..(star_idx - 1), frames) :
                      AcceptsNoStar(g_criterion, star_idx, s)}

\* C2 (as claimed): with the wildcard forbidden, the length-T label sequences
\* the acceptor accepts are exactly the classic CTC alignments of the target.
C2_ClassicCtc ==
    Built /\ time = 0 => NoStarLanguage = {s \in SeqsOfLen(0..(star_idx - 1), frames) :
                                  CtcCollapse(s) = target}

\* C2 (amended): with the wildcard forbidden, the accepted length-T label
\* sequences are exactly the alignments of the self-loop-free CTC graph: the
\* target's tokens in order, one frame each, with any number of blank frames
\* before, between and after them.
C2_SelflessCtc ==
    Built /\ time = 0 => NoStarLanguage = {s \in SeqsOfLen(0..(star_idx - 1), frames) :
                                  RemoveBlanks(s) = target}

\* C2 witness: a wildcard-free accepted walk that holds a blank frame and a
\* token frame.
C2_Witness ==
    /\ Accepted /\ stars = 0 /\ L_ >= 2
    /\ \E i \in 1..Len(labels) : labels[i] = STC_BLANK_IDX

IsTokenState(v) == v < S_ /\ v % 2 = 1
SkipArcs(g) == {a \in Arcs(g) : a.dst < S_ /\ a.src < S_ /\ a.dst = a.src + 2}

\* The walk has emitted two identical adjacent target tokens in consecutive
\* frames: it entered token state v, then token state v + 2, same label.
MergedAt(i) ==
    /\ IsTokenState(path[i + 1]) /\ IsTokenState(path[i + 2])
    /\ path[i + 2] = path[i + 1] + 2
    /\ labels[i] = labels[i + 1]

\* C3 (as claimed): skip-arcs only at odd l > 1, and no path emits two
\* identical adjacent tokens in consecutive frames.
C3_NoAdjacentRepeat ==
    Built => /\ \A a \in SkipArcs(g_criterion) : a.dst % 2 = 1 /\ a.dst > 1
             /\ \A i \in 1..(Len(labels) - 1) : ~MergedAt(i)

\* C3 (amended): skip-arcs exist exactly at the odd l > 1, whether or not the
\* two tokens are equal; no token state carries a self-loop; and identical
\* adjacent tokens are never merged: a wildcard-free walk that stands on chain
\* state l has consumed one frame for each of the first (l+1) div 2 target tokens.
C3_SkipArcsNoMerge ==
    Built => /\ {<<a.src, a.dst>> : a \in SkipArcs(g_criterion)}
                   = {<<l - 2, l>> : l \in {x \in 2..(S_ - 1) : x % 2 = 1}}
             /\ \A a \in Arcs(g_criterion) : IsTokenState(a.src) => a.dst # a.src
             /\ stars = 0 =>
                   RemoveBlanks(labels) = SubSeq(target, 1, (path[Len(path)] + 1) \div 2)

\* C3 witness: a walk over a target with two identical adjacent tokens that
\* emitted them in consecutive frames.
C3_Witness ==
    /\ Built /\ stars = 0
    /\ \E i \in 1..(Len(labels) - 1) : MergedAt(i)

\* C4: the base chain has S = 2L+1 states 0..S-1, state 0 is the only start
\* state of the acceptor, the chain's accept states are S-1 and (L >= 1) S-2,
\* every even state has a blank self-loop, and every state l > 0 has an arc
\* from l-1 labelled with l's own label.
C4_BaseChain ==
    Built =>
        /\ NumNodes(g_criterion) - (L_ + 1) = S_
        /\ Starts(g_criterion) = {0}
        /\ Accepts(g_criterion) \cap 0..(S_ - 1)
              = {S_ - 1} \cup (IF L_ >= 1 THEN {S_ - 2} ELSE {})
        /\ \A l \in 0..(S_ - 1) :
              l % 2 = 0 => Arc(l, l, STC_BLANK_IDX, 0) \in Arcs(g_criterion)
        /\ \A l \in 1..(S_ - 1) :
              Arc(l - 1, l, IF l % 2 = 1 THEN target[(l + 1) \div 2] ELSE STC_BLANK_IDX, 0)
                  \in Arcs(g_criterion)

C4_Witness == Built /\ L_ = 2 /\ target[1] # target[2]

\* Arcs without their labels.
Shape(a) == <<a.src, a.dst, a.weight>>

\* C5: L+1 star states, one per gap g: self-loop and entry arcs (from 2g-1
\* when g >= 1, and from 2g) of weight log(prob), a zero-weight blank exit
\* arc to 2g, a zero-weight arc into 2g+1 labelled target[g] exactly when
\* g < L, and the star state of the final gap is the only accepting one.
C5_StarStates ==
    Built =>
        /\ NumNodes(g_criterion) = S_ + L_ + 1
        /\ \A gap \in 0..L_ :
              LET c == S_ + gap
                  inc == {a \in Arcs(g_criterion) : a.dst = c}
                  out == {a \in Arcs(g_criterion) : a.src = c /\ a.dst # c}
              IN /\ {Shape(a) : a \in inc}
                       = {<<c, c, 1>>, <<2 * gap, c, 1>>}
                         \cup (IF gap >= 1 THEN {<<2 * gap - 1, c, 1>>} ELSE {})
                 /\ out = {Arc(c, 2 * gap, STC_BLANK_IDX, 0)}
                         \cup (IF gap < L_
                               THEN {Arc(c, 2 * gap + 1, target[gap + 1], 0)} ELSE {})
                 /\ (c \in Accepts(g_criterion)) = (gap = L_)

C5_Witness == Built /\ L_ = 2

\* C6: for the empty target the acceptor is one base state (start, accept,
\* blank self-loop) and one accepting star state, it is built without
\* failure, and on a lattice with all mass on blank the loss is 0: the
\* forward score is exactly 1 (log 1 = 0), whatever T and prob.
C6_EmptyTarget ==
    Built /\ L_ = 0 =>
        /\ g_criterion.ok
        /\ g_criterion.nodes = <<[start |-> TRUE, accept |-> TRUE],
                                 [start |-> FALSE, accept |-> TRUE]>>
        /\ Arc(0, 0, STC_BLANK_IDX, 0) \in Arcs(g_criterion)
        /\ profile = "blank" => score = PolyOne(frames)

C6_Witness == Built /\ L_ = 0 /\ profile = "blank" /\ frames >= 2 /\ Accepted

\* ----------------------------------------------- claims about the loss call
CallerT == inputs.shape[1]
CallerB == inputs.shape[2]
Dispatched == pc = "parallel_for"
Last == results[Len(results)]

\* C1: the per-example pipeline runs once for each example b in 0..B-1 of the
\* caller's batch, and the lattice of example b is a chain of T+1 nodes built
\* from that example's T x C' matrix: the driver's B and T are the caller's.
C1_BatchAndTime ==
    Dispatched =>
        /\ DOMAIN status = 0..(CallerB - 1)
        /\ ctx.B = CallerB /\ ctx.T = CallerT
        /\ \A b \in DOMAIN status :
              status[b] = "done" =>
                  /\ emissions_graphs[b][1].nnodes = CallerT + 1
                  /\ \A t \in 0..(CallerT - 1), c \in 0..(ctx.Cstar - 1) :
                        emissions_graphs[b][1].w[<<t, c>>]
                            = permute(ReducedLogProbs(inputs, targets)).data[<<b, t, c>>]

\* C7 (as claimed): two calls in a row with identical inputs and penalty
\* configuration yield the identical loss.
C7_Idempotent ==
    \A i \in 1..(Len(results) - 1) : results[i].outcome = results[i + 1].outcome

\* C7 (amended): two calls in a row with identical inputs yield the identical
\* outcome whenever the second call leaves the penalty where the first had it:
\* the second call is made in eval mode (nstep not advanced) or the schedule
\* is constant (p0 = plast).
C7_SamePenaltySameLoss ==
    \A i \in 1..(Len(results) - 1) :
        (~results[i + 1].training \/ p0 = plast)
            => results[i].outcome = results[i + 1].outcome

\* C7 witness: a training call then an eval call under a decaying schedule,
\* both returning a finite loss that depends on the penalty.
C7_Witness ==
    /\ Len(results) = 2 /\ p0 # plast
    /\ results[1].training /\ ~results[2].training
    /\ results[2].outcome.kind = "loss"
    /\ results[2].outcome.value[1].kind = "finite"
    /\ results[2].outcome.value[1].prob # NoPenalty

\* C8 (as claimed): targets referencing classes {0, 3, 5} give a reduced
\* tensor of width 3 + 1 + 3 = 7.
C8_Width7 ==
    Dispatched /\ {STC_BLANK_IDX} \cup Tokens(targets) = {0, 3, 5} => ctx.Cstar = 7

\* C8 (amended): targets whose tokens are the classes 3 and 5 (blank 0 is
\* always selected) give a reduced tensor of width 3 + 1 + 2 = 6: channels
\* 0..2 the selected classes 0, 3, 5, channel 3 the wildcard (all non-blank
\* mass), channels 4, 5 the not-this-token channels of classes 3 and 5.
C8_Width6 ==
    Dispatched /\ Tokens(targets) = {3, 5} =>
        /\ ctx.Cstar = 6
        /\ ctx.inputs.shape = <<CallerT, CallerB, 6>>
        /\ \A t \in 0..(CallerT - 1), b \in 0..(CallerB - 1) :
              LET in(c) == inputs.data[<<t, b, c>>]
                  out(c) == ctx.inputs.data[<<t, b, c>>]
                  star == SumOver([c \in 0..(NumClasses - 1) |-> in(c)], 1, NumClasses - 1)
              IN /\ out(0) = <<in(0), 0>> /\ out(1) = <<in(3), 0>> /\ out(2) = <<in(5), 0>>
                 /\ out(3) = <<star, 0>>
                 /\ out(4) = <<star - in(3), star>>
                 /\ out(5) = <<star - in(5), star>>

C8_Witness ==
    Dispatched /\ Tokens(targets) = {3, 5} /\ CallerT >= 1 /\ CallerB >= 2

\* The composed automaton of task b has no reachable accept state.
EmptyLanguage(b) ==
    ~HasAcceptingPath(create_stc_graph(ctx.targets[b + 1], ctx.C), emissions_graphs[b][1])

\* C9: a call in which some example's composed automaton has no reachable
\* accept state fails with an error; it returns no loss.
C9_EmptyLanguageFails ==
    pc = "idle" /\ results # << >> =>
        ((\E b \in DOMAIN status : status[b] = "done" /\ EmptyLanguage(b))
            => Last.outcome.kind = "error")

\* C10: every call with a reduction outside {none, mean} fails with an error
\* and returns no loss, whatever the batch; with none or mean no
\* invalid-reduction error is raised.
C10_InvalidReductionFails ==
    \A i \in 1..Len(results) :
        IF ValidReduction(reduction)
        THEN results[i].outcome.error # "ValueError"
        ELSE results[i].outcome.kind = "error"

\* --------------------------------------------- claims about the gradient call
RECURSIVE PolySum(_, _, _)
PolySum(f, n, D) == IF n = 0 THEN PolyZero(D) ELSE PolyAdd(f[n - 1], PolySum(f, n - 1, D))

\* C11: for every example b the gradient call applies the scale the loss call
\* applied to its loss (1/T for mean with T > 0, 1 for none), and the returned
\* gradient of example b is its raw emission gradient (the posterior of each
\* lattice arc: per frame the numerators add up to the example's score) times
\* that scale and grad_output / B, B the batch size of the loss call.
C11_GradientScale ==
    input_grad # None =>
        /\ DOMAIN input_grad[1] = 0..(ctx.B - 1)
        /\ \A b \in DOMAIN input_grad[1] :
              LET g == input_grad[1][b]
              IN /\ g.scale = scales[b][1]
                 /\ g.scale = (IF reduction = "mean" /\ ctx.T > 0 THEN ctx.T ELSE 1)
                 /\ g.B = ctx.B
                 /\ Last.outcome.value[1].kind = "finite"
                       => /\ Last.outcome.value[1].terms[b + 1].scale = g.scale
                          /\ Len(Last.outcome.value[1].terms) = g.B
                 /\ g.grad_output \in GradOutputs
                 /\ \A t \in 0..(ctx.T - 1) :
                       /\ \A c \in 0..(ctx.Cstar - 1) : g.raw[<<t, c>>].den = losses[b][1]
                       /\ PolySum([c \in 0..(ctx.Cstar - 1) |-> g.raw[<<t, c>>].num],
                                  ctx.Cstar, ctx.T) = losses[b][1]

\* C11 witness: a gradient returned for a mean-reduced call over two examples
\* of two frames each whose loss is finite.
C11_Witness ==
    /\ input_grad # None /\ reduction = "mean" /\ ctx.T >= 2 /\ ctx.B >= 2
    /\ Last.outcome.value[1].kind = "finite"

\* ------------------------------------------- claims about the worker pool
Slots(b) == <<losses[b], scales[b], emissions_graphs[b]>>
Returned == pc = "idle" /\ results # << >>

\* What task b has written, by the statement it stands before.
Written(st) ==
    IF st = "done" THEN <<TRUE, TRUE, TRUE>>
    ELSE IF st = "at_graphs" THEN <<TRUE, TRUE, FALSE>>
    ELSE IF st = "at_scales" THEN <<TRUE, FALSE, FALSE>>
    ELSE <<FALSE, FALSE, FALSE>>

\* C12 (as claimed): when parallel_for has returned, every slot 0..B-1 of
\* losses, scales and emissions_graphs has been written.
C12_EverySlotWritten ==
    Returned => \A b \in 0..(ctx.B - 1) : \A k \in 1..3 : Slots(b)[k] # None

\* Every step of the pool is a step of one task b, which alone moves; it
\* changes no slot but slot b, and a slot that changes was unset and is set.
OwnSlotStep ==
    pc = "parallel_for" /\ pc' = "parallel_for" =>
        \E b \in DOMAIN status :
            /\ status'[b] # status[b]
            /\ \A c \in DOMAIN status \ {b} :
                  status'[c] = status[c] /\ Slots(c)' = Slots(c) /\ local'[c] = local[c]
            /\ \A k \in 1..3 :
                  Slots(b)'[k] # Slots(b)[k] => Slots(b)[k] = None /\ Slots(b)'[k] # None

\* The reduction runs only when no task is still running and leaves the
\* slots as the tasks wrote them.
BarrierStep ==
    pc = "parallel_for" /\ pc' = "idle" =>
        /\ \A b \in DOMAIN status : ~Running(status[b])
        /\ UNCHANGED <<losses, scales, emissions_graphs>>

\* C12 (amended): under every interleaving task b writes only slot b of
\* losses, scales and emissions_graphs, each at most once (a slot is set
\* exactly when its task has passed the statement that writes it, and a task
\* that raises writes none of its slots); the reduction starts only after all
\* B tasks have ended; it is skipped when a task raised, and otherwise reads
\* slots that are all set.
C12_OwnSlotOnceBarrier ==
    /\ [](pc = "parallel_for" \/ Returned =>
             /\ DOMAIN status = 0..(ctx.B - 1)
             /\ \A b \in DOMAIN status :
                   \A k \in 1..3 : (Slots(b)[k] # None) = Written(status[b])[k])
    /\ [](Returned =>
             IF \A b \in DOMAIN status : status[b] = "done"
             THEN Last.outcome.kind = "loss" /\ aux # None
             ELSE Last.outcome.kind = "error" /\ Last.outcome.value = None /\ aux = None)
    /\ [][OwnSlotStep /\ BarrierStep]_vars

\* C12 witness: task 1 has overtaken task 0: it stands before its last write
\* while task 0 has written losses[0] only.
C12_Witness ==
    /\ pc = "parallel_for" /\ ctx.B >= 2
    /\ status[0] = "at_scales" /\ status[1] = "at_graphs"
    /\ scales[1] # None /\ scales[0] = None

\* -------------------------------------------- claims about the composition
\* C13: every arc of the composed automaton goes from lattice time t to t+1:
\* every acceptor arc, self-loops included, carries a label (none is epsilon)
\* and takes one frame, so a walk of n arcs stands at time n and never comes
\* back to a composed node (node, time), and every accepting path has exactly
\* T arcs.
C13_ArcsAdvanceTime ==
    Built =>
        /\ \A a \in Arcs(g_criterion) : ~IsEpsilon(a.ilabel) /\ ~IsEpsilon(a.olabel)
        /\ Len(path) - 1 = time
        /\ Len(labels) = time
        /\ \A i, j \in 1..Len(path) : i # j => <<path[i], i - 1>> # <<path[j], j - 1>>
        /\ Accepted => Len(path) - 1 = frames

\* C13 witness: an accepting path over three or more frames that stayed on a
\* star state through its self-loop.
C13_Witness ==
    /\ Accepted /\ frames >= 3
    /\ \E i \in 1..(Len(path) - 1) : path[i] = path[i + 1] /\ path[i] >= S_

\* The wildcard arcs of gap: the arcs into its star state, self-loop included.
WildcardArcs(g, gap) == {a \in Arcs(g) : a.dst = S_ + gap}

\* C14: the wildcard arcs of a non-final gap carry the not-this-token label
\* of the token that follows, star_idx + target[gap]; those of the final gap
\* carry the plain wildcard label star_idx; and every other arc (the chain's
\* arcs and the arcs that leave a star state) carries a label below star_idx,
\* a blank or a token.
C14_WildcardLabels ==
    Built =>
        /\ \A gap \in 0..L_ :
              \A a \in WildcardArcs(g_criterion, gap) :
                  /\ a.ilabel = a.olabel
                  /\ a.olabel = IF gap < L_ THEN star_idx + target[gap + 1] ELSE star_idx
                  /\ a.weight = 1
        /\ \A a \in Arcs(g_criterion) :
              a.dst < S_ =>
                  /\ a.olabel \in {STC_BLANK_IDX} \cup {target[i] : i \in 1..L_}
                  /\ a.olabel < star_idx /\ a.ilabel = a.olabel
                  /\ a.weight = 0

\* C14 witness: a walk that took the not-this-token arc of a token into the
\* star state of gap 1 and then the arc of that token.
C14_Witness ==
    /\ Built /\ L_ = 2
    /\ \E i \in 1..(Len(labels) - 1) :
          /\ path[i + 1] = S_ + 1
          /\ labels[i] = star_idx + target[2]
          /\ labels[i + 1] = target[2]

\* ------------------------------------------------- claims about decoding
\* The most likely class of frame t of batch element b over all C classes.
BestClass(t, b) == ArgMax([c \in 0..(NumClasses - 1) |-> inputs.data[<<t, b, c>>]], NumClasses)

\* C15: viterbi returns, for each batch element, the greedy decoding over all
\* C classes (per-frame most likely class, runs merged, blanks removed), with
\* no blank and at most T tokens, whatever loss calls came before.
C15_GreedyDecode ==
    decoded # None =>
        /\ decoded[1].kind = "ok"
        /\ Len(decoded[1].seqs) = CallerB
        /\ \A b \in 1..CallerB :
              /\ decoded[1].seqs[b] = CtcCollapse([t \in 1..CallerT |-> BestClass(t - 1, b - 1)])
              /\ \A i \in 1..Len(decoded[1].seqs[b]) : decoded[1].seqs[b][i] # STC_BLANK_IDX
              /\ Len(decoded[1].seqs[b]) <= CallerT

\* ------------------------------------------- claims about the penalty schedule
TrainingCalls == Cardinality({i \in 1..Len(results) : results[i].training})

\* Twice the value of a penalty base + diff * 2^(-num/den) whose exponent is
\* 0 (diff = 0) or -1 (num = den).
Twice(p) == IF p.diff = 0 THEN 2 * p.base ELSE 2 * p.base + p.diff

\* A step that starts a loss call.
CallStarts == pc = "idle" /\ pc' = "parallel_for"

\* C16: nstep starts at 0; a training-mode loss call adds exactly 1 to it
\* before the penalty is computed, an eval-mode call and every other step
\* leave it unchanged (so between calls nstep is the number of training calls
\* made); the penalty a call uses is plast + (p0 - plast) * 2^(-nstep/thalf)
\* for the nstep it has set; and the call with nstep = thalf uses exactly
\* (p0 + plast) / 2.
C16_StepAndPenalty ==
    /\ nstep = 0
    /\ [][nstep' = IF CallStarts /\ training THEN nstep + 1 ELSE nstep]_vars
    /\ [](pc = "idle" => nstep = TrainingCalls)
    /\ [](Dispatched =>
             /\ ctx.prob = Penalty(p0, plast, nstep, thalf)
             /\ nstep = thalf =>
                   /\ ctx.prob.diff # 0 => ctx.prob.num = ctx.prob.den
                   /\ Twice(ctx.prob) = p0 + plast)

\* C16 witness: the second training call of an object whose penalty decays
\* with thalf = 2.
C16_Witness ==
    /\ Dispatched /\ ctx.training /\ p0 # plast /\ thalf = 2 /\ nstep = thalf
    /\ Len(results) = 1 /\ results[1].training

\* ------------------------------------------- claims about the channel layout
\* The non-blank mass of frame t of batch element b of the caller's input.
StarMass(t, b) ==
    SumOver([c \in 0..(NumClasses - 1) |-> inputs.data[<<t, b, c>>]], 1, NumClasses - 1)

\* C17: with n selected channels (blank first, then the distinct classes of
\* the batch in the order of select_idx), the reduced width Cstar is 2n,
\* star_idx = Cstar // 2 = n is the wildcard channel, every remapped target
\* token lies in 1..n-1 and names the channel of its class, every label of
\* every acceptor built for the batch lies in 0..Cstar-1, and channel
\* star_idx + k is the not-this-token channel of the class of token k.
C17_ChannelLayout ==
    Dispatched =>
        LET sel == select_idx(targets)
            n == Len(sel)
        IN /\ sel[1] = STC_BLANK_IDX
           /\ {sel[i] : i \in 2..n} = Tokens(targets) /\ n = 1 + Cardinality(Tokens(targets))
           /\ ctx.Cstar = 2 * n /\ ctx.C = n
           /\ Len(ctx.targets) = Len(targets)
           /\ \A b \in 1..Len(targets) :
                 /\ Len(ctx.targets[b]) = Len(targets[b])
                 /\ \A i \in 1..Len(targets[b]) :
                       /\ ctx.targets[b][i] \in 1..(n - 1)
                       /\ sel[ctx.targets[b][i] + 1] = targets[b][i]
                 /\ LET g == create_stc_graph(ctx.targets[b], ctx.C)
                    IN /\ g.ok
                       /\ \A a \in Arcs(g) : a.olabel \in 0..(ctx.Cstar - 1)
                                             /\ a.ilabel = a.olabel
           /\ \A t \in 0..(CallerT - 1), b \in 0..(CallerB - 1) :
                 /\ \A k \in 0..(n - 1) :
                       ctx.inputs.data[<<t, b, k>>] = <<inputs.data[<<t, b, sel[k + 1]>>], 0>>
                 /\ ctx.inputs.data[<<t, b, n>>] = <<StarMass(t, b), 0>>
                 /\ \A k \in 1..(n - 1) :
                       ctx.inputs.data[<<t, b, n + k>>]
                           = <<StarMass(t, b) - inputs.data[<<t, b, sel[k + 1]>>], StarMass(t, b)>>

\* C17 witness: a batch whose only class is 5, which is remapped to token 1,
\* its not-this-token channel being channel 3 of 4.
C17_Witness ==
    /\ Dispatched /\ Tokens(targets) = {5} /\ CallerT >= 1 /\ CallerB >= 1
    /\ ctx.targets[1] = <<1, 1>> /\ ctx.Cstar = 4

\* C18: for a target of length L and a lattice of T frames that offers every
\* class at every frame, the composition has an accepting path if and only
\* if T >= L; with non-zero emissions the score is then not -inf.
C18_PathIffEnoughFrames ==
    Built =>
        /\ HasAcceptingPath(g_criterion, g_emissions) <=> frames >= L_
        /\ Accepted => frames >= L_
        /\ profile = "flat" => (IsZeroPoly(score) <=> frames < L_)

\* C18 witness: an accepting walk that has exactly one frame for each of two
\* target tokens.
C18_Witness == Accepted /\ L_ = 2 /\ frames = L_ /\ RemoveBlanks(labels) = target

====
